---------------------------- MODULE Spec2Model ----------------------------
(***************************************************************************)
(* Model of the WrappedStaticText widget (src/WrappedStaticText.py).       *)
(*                                                                         *)
(* A text is a sequence of one-character strings.  The widget's state is   *)
(* its fields (unwrappedLabel, wrappedWidth, maxRows), the font and the    *)
(* label held by the wx.StaticText base class (font, shown), and the       *)
(* locals of the SetLabel invocation that is running or ran last.          *)
(*                                                                         *)
(* SetLabel is one action up to its fallback loop (lines 42-78); the loop  *)
(* of lines 79-82 is taken one iteration per step, because nothing in the  *)
(* code bounds the number of its iterations.                               *)
(***************************************************************************)
EXTENDS Integers, Sequences, FiniteSets, TLC

\* ------------------------------------------------------------------ bounds
MaxWords == 3          \* words in a label joined by single spaces
MaxWidth == 5          \* the widths a widget is constructed with: 0..MaxWidth

\* --------------------------------------------------------------- constants
MaxSize == 2147483647  \* sys.maxsize, as the largest integer TLC holds
NoMaxRows == 0         \* max_rows=None

SP == " "
NL == "\n"
ELLIPSIS == "..."      \* the one glyph U+2026
None == <<"None">>     \* Python's None where a text is expected

\* ------------------------------------------------------------------- fonts
\* A font is what the measurement of a text depends on: the advance of each
\* character and the height of a line.
Fonts ==
    { [a |-> 1, b |-> 1, sp |-> 1, el |-> 1, lineH |-> 1],
      [a |-> 2, b |-> 3, sp |-> 1, el |-> 2, lineH |-> 3] }

CharWidth(f, c) ==
    CASE c = "a" -> f.a
      [] c = "b" -> f.b
      [] c = SP -> f.sp
      [] c = ELLIPSIS -> f.el
      [] OTHER -> 0

RECURSIVE LineWidth(_, _)
LineWidth(f, line) ==
    IF line = <<>> THEN 0
    ELSE CharWidth(f, Head(line)) + LineWidth(f, Tail(line))

\* str.split("\n"): the lines of a text, at least one.
RECURSIVE SplitLines(_)
SplitLines(text) ==
    IF \A i \in 1..Len(text) : text[i] # NL THEN <<text>>
    ELSE LET i == CHOOSE k \in 1..Len(text) :
                     text[k] = NL /\ \A j \in 1..(k - 1) : text[j] # NL
         IN <<SubSeq(text, 1, i - 1)>> \o SplitLines(SubSeq(text, i + 1, Len(text)))

RECURSIVE MaxOf(_)
MaxOf(ns) ==
    IF ns = <<>> THEN 0
    ELSE LET m == MaxOf(Tail(ns)) IN IF Head(ns) > m THEN Head(ns) ELSE m

\* dc.GetMultiLineTextExtent(text): <<width of the widest line, total height>>.
GetMultiLineTextExtent(f, text) ==
    IF text = <<>> THEN <<0, 0>>
    ELSE LET lines == SplitLines(text)
         IN <<MaxOf([i \in 1..Len(lines) |-> LineWidth(f, lines[i])]),
              Len(lines) * f.lineH>>

\* ------------------------------------------------------------ str.split()
IsSpace(c) == c = SP \/ c = NL

RECURSIVE Split(_)
Split(text) ==
    IF text = <<>> THEN <<>>
    ELSE IF IsSpace(Head(text)) THEN Split(Tail(text))
    ELSE LET n == IF \E k \in 1..Len(text) : IsSpace(text[k])
                  THEN (CHOOSE k \in 1..Len(text) :
                            IsSpace(text[k]) /\ \A j \in 1..(k - 1) : ~IsSpace(text[j])) - 1
                  ELSE Len(text)
         IN <<SubSeq(text, 1, n)>> \o Split(SubSeq(text, n + 1, Len(text)))

\* ---------------------------------------------------------- _GetWrappings
\* _GetWrappings with a space on both sides of its last split.
RECURSIVE GetWrappings_SpaceTwice(_, _)
GetWrappings_SpaceTwice(text, words) ==
    IF Len(words) = 0 THEN <<text>>
    ELSE IF Len(words) = 1
    THEN <<text \o <<SP>> \o words[1], text \o <<SP>> \o words[1]>>
    ELSE GetWrappings_SpaceTwice(text \o <<SP>> \o words[1], Tail(words))
         \o GetWrappings_SpaceTwice(text \o <<NL>> \o words[1], Tail(words))

\* _GetWrappings with the new-line branch enumerated before the space branch.
RECURSIVE GetWrappings_NewlineFirst(_, _)
GetWrappings_NewlineFirst(text, words) ==
    IF Len(words) = 0 THEN <<text>>
    ELSE IF Len(words) = 1
    THEN <<text \o <<NL>> \o words[1], text \o <<SP>> \o words[1]>>
    ELSE GetWrappings_NewlineFirst(text \o <<NL>> \o words[1], Tail(words))
         \o GetWrappings_NewlineFirst(text \o <<SP>> \o words[1], Tail(words))

RECURSIVE GetWrappings(_, _)
GetWrappings(text, words) ==
    IF Len(words) = 0 THEN <<text>>
    ELSE IF Len(words) = 1
    THEN <<text \o <<SP>> \o words[1], text \o <<NL>> \o words[1]>>
    ELSE GetWrappings(text \o <<SP>> \o words[1], Tail(words))
         \o GetWrappings(text \o <<NL>> \o words[1], Tail(words))

\* ------------------------------------------------- SetLabel, the search loop
\* The locals of SetLabel as lines 48-55 leave them.
InitialBest ==
    [best_label |-> None, best_height |-> MaxSize,
     best_unwrapped_label |-> None, best_unwrapped_width |-> MaxSize,
     best_unwrapped_height |-> MaxSize]

\* The iteration with line 63 testing the height against the width bound.
UpdateBest_FitByHeight(s, l, w, h, width) ==
    IF h <= width
    THEN IF h < s.best_height
         THEN [s EXCEPT !.best_label = l, !.best_height = h]
         ELSE s
    ELSE IF h = s.best_unwrapped_height
    THEN IF w < s.best_unwrapped_width
         THEN [s EXCEPT !.best_unwrapped_label = l, !.best_unwrapped_width = w]
         ELSE s
    ELSE IF h < s.best_unwrapped_height
    THEN [s EXCEPT !.best_unwrapped_label = l, !.best_unwrapped_height = h]
    ELSE s

\* The iteration without the test of line 64: every fitting candidate is taken.
UpdateBest_NoHeightTest(s, l, w, h, width) ==
    IF w <= width
    THEN [s EXCEPT !.best_label = l, !.best_height = h]
    ELSE IF h = s.best_unwrapped_height
    THEN IF w < s.best_unwrapped_width
         THEN [s EXCEPT !.best_unwrapped_label = l, !.best_unwrapped_width = w]
         ELSE s
    ELSE IF h < s.best_unwrapped_height
    THEN [s EXCEPT !.best_unwrapped_label = l, !.best_unwrapped_height = h]
    ELSE s

\* One iteration of the loop of line 59 on candidate l measured <<w, h>>.
\* Line 74 assigns best_unwrapped_widtht, a name nothing reads: the branch of
\* line 72 leaves best_unwrapped_width as it was.
UpdateBest(s, l, w, h, width) ==
    IF w <= width
    THEN IF h < s.best_height
         THEN [s EXCEPT !.best_label = l, !.best_height = h]
         ELSE s
    ELSE IF h = s.best_unwrapped_height
    THEN IF w < s.best_unwrapped_width
         THEN [s EXCEPT !.best_unwrapped_label = l, !.best_unwrapped_width = w]
         ELSE s
    ELSE IF h < s.best_unwrapped_height
    THEN [s EXCEPT !.best_unwrapped_label = l, !.best_unwrapped_height = h]
    ELSE s

\* The loop of lines 59-75 over the first n candidates.
RECURSIVE SearchUpTo(_, _, _, _)
SearchUpTo(ls, n, f, width) ==
    IF n = 0 THEN InitialBest
    ELSE LET m == GetMultiLineTextExtent(f, ls[n])
         IN UpdateBest(SearchUpTo(ls, n - 1, f, width), ls[n], m[1], m[2], width)

Search(ls, f, width) == SearchUpTo(ls, Len(ls), f, width)

\* best_unwrapped_label[:-2]
DropLastChar_Two(s) == IF Len(s) < 2 THEN <<>> ELSE SubSeq(s, 1, Len(s) - 2)

\* best_unwrapped_label[:-1]
DropLastChar(s) == IF s = <<>> THEN <<>> ELSE SubSeq(s, 1, Len(s) - 1)

\* ------------------------------------------------------------------ labels
RECURSIVE JoinWith(_, _)
JoinWith(words, sep) ==
    IF words = <<>> THEN <<>>
    ELSE IF Len(words) = 1 THEN words[1]
    ELSE words[1] \o sep \o JoinWith(Tail(words), sep)

Words == { <<"a">>, <<"b", "b">> }

WordSeqs(n) == UNION { [1..k -> Words] : k \in 0..n }

\* The labels a host passes to SetLabel: words joined by single spaces (the
\* empty label among them), and labels with leading, trailing and doubled
\* whitespace (the blank label among them).
Labels ==
    { JoinWith(ws, <<SP>>) : ws \in WordSeqs(MaxWords) }
    \cup { <<SP>>,
           <<SP, "a", SP>>,
           <<"a", SP, SP, "b", "b">>,
           <<SP, "b", "b", SP, SP, "a", SP>> }

\* The labels a widget is constructed with.
InitLabels ==
    { <<>>,
      <<"a">>,
      <<"b", "b", SP, "a">>,
      <<"a", SP, "b", "b", SP, "a">> }

Widths == 0..MaxWidth

MaxRowsChoices == {NoMaxRows, 1}

\* Lines 45-75 for label l under font f and width w: the candidates of line 56
\* (none when line 56 raises) and the locals the loop of line 59 leaves.
SearchOf(l, f, w) ==
    LET label_split == Split(l) IN
    IF label_split = <<>> THEN [labels |-> <<>>, best |-> InitialBest]
    ELSE LET ls == GetWrappings(label_split[1], Tail(label_split))
         IN [labels |-> ls, best |-> Search(ls, f, w)]

\* SearchOf, tabulated once over the inputs of the model (g @@ g is g).
SearchTable ==
    LET g == [l \in Labels \cup InitLabels, f \in Fonts, w \in Widths |-> SearchOf(l, f, w)]
    IN g @@ g

\* ------------------------------------------------------------------- state
VARIABLES
    unwrappedLabel,         \* self.unwrappedLabel
    wrappedWidth,           \* self.wrappedWidth
    maxRows,                \* self.maxRows
    font,                   \* the base class's font, self.GetFont()
    shown,                  \* the base class's label, self.GetLabel()
    pc,                     \* where the widget's code is
    ret,                    \* where the running SetLabel returns to
    fault,                  \* the exception the last call raised, or "none"
    result,                 \* how the last SetLabel returned: "Wrapped",
                            \* "Truncated", or "none" while none has returned
    lastLabel,              \* the label the host passed to SetLabel last
    label,                  \* SetLabel's parameter
    labels,                 \* SetLabel's candidates, as enumerated
    best_label,
    best_height,
    best_unwrapped_label,
    best_unwrapped_width,
    best_unwrapped_height

fields == <<unwrappedLabel, wrappedWidth, maxRows>>
locals == <<label, labels, best_label, best_height, best_unwrapped_label,
            best_unwrapped_width, best_unwrapped_height>>
vars == <<fields, font, shown, pc, ret, fault, result, lastLabel, locals>>

\* __init__ up to line 30: the fields are assigned, the base class holds the
\* font the constructor is about to set (line 32 sets it before anything
\* reads it) and an empty label.
Init ==
    /\ unwrappedLabel \in InitLabels
    /\ wrappedWidth \in Widths
    /\ maxRows \in MaxRowsChoices
    /\ font \in Fonts
    /\ shown = <<>>
    /\ pc = "ctorSetFont"
    /\ ret = "idle"
    /\ fault = "none"
    /\ result = "none"
    /\ lastLabel = unwrappedLabel
    /\ label = None
    /\ labels = <<>>
    /\ best_label = None
    /\ best_height = MaxSize
    /\ best_unwrapped_label = None
    /\ best_unwrapped_width = MaxSize
    /\ best_unwrapped_height = MaxSize

SetLocals(s) ==
    /\ best_label' = s.best_label
    /\ best_height' = s.best_height
    /\ best_unwrapped_label' = s.best_unwrapped_label
    /\ best_unwrapped_width' = s.best_unwrapped_width
    /\ best_unwrapped_height' = s.best_unwrapped_height

\* SetLabel(l) under font f, lines 42-78 and, when a candidate fits, line 84.
\* cont is where the caller goes on when the call returns.
DoSetLabel(l, f, cont) ==
    LET searched == SearchTable[l, f, wrappedWidth] IN
    /\ label' = l
    /\ IF searched.labels = <<>>
       THEN \* line 56: label_split[0] raises IndexError
            /\ labels' = <<>>
            /\ SetLocals(InitialBest)
            /\ fault' = "IndexError"
            /\ result' = "none"
            /\ pc' = IF pc = "idle" THEN "idle" ELSE "failed"
            /\ UNCHANGED <<shown, ret>>
       ELSE LET s == searched.best
            IN /\ labels' = searched.labels
               /\ SetLocals(s)
               /\ fault' = "none"
               /\ IF s.best_label # None
                  THEN /\ shown' = s.best_label
                       /\ result' = "Wrapped"
                       /\ pc' = cont
                       /\ UNCHANGED ret
                  ELSE /\ result' = "none"
                       /\ pc' = "ellipsis"
                       /\ ret' = cont
                       /\ UNCHANGED shown

\* Lines 79-82: one iteration of the fallback loop.
EllipsisStep ==
    /\ pc = "ellipsis"
    /\ best_unwrapped_width > wrappedWidth
    /\ best_unwrapped_label' = DropLastChar(best_unwrapped_label)
    /\ best_unwrapped_width' =
           GetMultiLineTextExtent(font, best_unwrapped_label' \o <<ELLIPSIS>>)[1]
    /\ UNCHANGED <<fields, font, shown, pc, ret, fault, result, lastLabel,
                   label, labels, best_label, best_height, best_unwrapped_height>>

\* Lines 83-84: the loop's exit.
EllipsisReturn ==
    /\ pc = "ellipsis"
    /\ ~(best_unwrapped_width > wrappedWidth)
    /\ best_label' = best_unwrapped_label \o <<ELLIPSIS>>
    /\ shown' = best_label'
    /\ result' = "Truncated"
    /\ pc' = ret
    /\ UNCHANGED <<fields, font, ret, fault, lastLabel, label, labels,
                   best_height, best_unwrapped_label, best_unwrapped_width,
                   best_unwrapped_height>>

\* __init__ line 32: self.SetFont(font), which calls SetLabel(self.unwrappedLabel).
CtorSetFont ==
    /\ pc = "ctorSetFont"
    /\ DoSetLabel(unwrappedLabel, font, "ctorSetLabel")
    /\ UNCHANGED <<fields, font, lastLabel>>

\* __init__ line 33: self.SetLabel(label), the label of line 28.
CtorSetLabel ==
    /\ pc = "ctorSetLabel"
    /\ DoSetLabel(unwrappedLabel, font, "idle")
    /\ UNCHANGED <<fields, font, lastLabel>>

\* The host calls SetLabel(l).
SetLabel ==
    /\ pc = "idle"
    /\ \E l \in Labels :
          /\ lastLabel' = l
          /\ DoSetLabel(l, font, "idle")
    /\ UNCHANGED <<fields, font>>

\* The host calls SetFont(f): the base class takes the font, then
\* SetLabel(self.unwrappedLabel).
SetFont ==
    /\ pc = "idle"
    /\ \E f \in Fonts :
          /\ font' = f
          /\ DoSetLabel(unwrappedLabel, f, "idle")
    /\ UNCHANGED <<fields, lastLabel>>

Next ==
    \/ CtorSetFont
    \/ CtorSetLabel
    \/ SetLabel
    \/ SetFont
    \/ EllipsisStep
    \/ EllipsisReturn

Spec == Init /\ [][Next]_vars

\* ---------------------------------------------------------------- helpers
\* The measured width of a text under the widget's font.
WidthOf(text) == GetMultiLineTextExtent(font, text)[1]
HeightOf(text) == GetMultiLineTextExtent(font, text)[2]
NumLines(text) == Len(SplitLines(text))
Fits(text) == WidthOf(text) <= wrappedWidth
RowsOk(text) == maxRows = NoMaxRows \/ NumLines(text) <= maxRows
IsPrefix(p, t) == Len(p) <= Len(t) /\ p = SubSeq(t, 1, Len(p))
Candidates == 1..Len(labels)
\* The words joined by the separators seps, one per word boundary.
RECURSIVE Interleave(_, _)
Interleave(words, seps) ==
    IF Len(words) = 1 THEN words[1]
    ELSE words[1] \o <<seps[1]>>
         \o Interleave(Tail(words), [i \in 1..(Len(seps) - 1) |-> seps[i + 1]])
\* The overflow candidate the search loop chose, before the fallback loop
\* shortens it.
ChosenOverflow == Search(labels, font, wrappedWidth).best_unwrapped_label
\* No iteration of the fallback loop has run on best_unwrapped_label.
Untruncated ==
    best_unwrapped_label = None \/ \E i \in Candidates : labels[i] = best_unwrapped_label

\* ------------------------------------------------------------------ claims

\* C1: whenever SetLabel returns a Wrapped result, every line of the displayed
\* label has measured width at most the width bound.
C1_WrappedLinesFit ==
    result = "Wrapped" =>
        LET lines == SplitLines(shown)
        IN \A i \in 1..Len(lines) : LineWidth(font, lines[i]) <= wrappedWidth

\* C1 witness: a Wrapped result of several lines whose one-line candidate
\* is wider than the bound.
C1_Witness ==
    /\ result = "Wrapped"
    /\ NumLines(shown) >= 2
    /\ WidthOf(labels[1]) > wrappedWidth

\* C2: when some candidate fits the width bound, SetLabel returns a Wrapped
\* result, one of the fitting candidates, and no candidate that fits the bound
\* (and the row limit, if set) has fewer lines than it.
C2_Minimal ==
    (result # "none" /\ \E i \in Candidates : Fits(labels[i])) =>
        /\ result = "Wrapped"
        /\ \E i \in Candidates : labels[i] = shown /\ Fits(labels[i])
        /\ \A i \in Candidates :
              (Fits(labels[i]) /\ RowsOk(labels[i])) => NumLines(labels[i]) >= NumLines(shown)

\* C2 witness: a label of three words laid out on two lines, so that fitting
\* candidates of two and of three lines exist, with a row limit set.
C2_Witness ==
    /\ result = "Wrapped"
    /\ Len(labels) = 4
    /\ NumLines(shown) = 2
    /\ maxRows # NoMaxRows
    /\ \E i \in Candidates : Fits(labels[i]) /\ NumLines(labels[i]) = 3

\* C3: with max_rows set, a Wrapped result never has more than max_rows lines.
C3_RowLimitEnforced ==
    (result = "Wrapped" /\ maxRows # NoMaxRows) => NumLines(shown) <= maxRows

\* C4: the fallback loop stops once the text has been truncated to the empty
\* string: it is never at its head with an empty text and its condition true.
\* (From such a state an iteration of lines 80-82 leads to the same state.)
C4_EmptyTextStopsLoop ==
    ~(pc = "ellipsis" /\ best_unwrapped_label = <<>> /\ best_unwrapped_width > wrappedWidth)

\* C5: SetLabel on a label without words raises no fault and returns the
\* Wrapped result of one empty line.
C5_EmptyLabelNoFault ==
    Split(label) = <<>> => (fault = "none" /\ result = "Wrapped" /\ shown = <<>>)

\* C6: a Truncated result is prefix + ellipsis, where prefix is the longest
\* proper prefix of the chosen overflow text that fits the bound with the
\* ellipsis: the result fits, and no longer prefix (nor the whole text) does.
C6_LongestPrefix ==
    result = "Truncated" =>
        LET orig == ChosenOverflow
            prefix == best_unwrapped_label
        IN /\ shown = prefix \o <<ELLIPSIS>>
           /\ Len(prefix) < Len(orig)
           /\ IsPrefix(prefix, orig)
           /\ WidthOf(shown) <= wrappedWidth
           /\ \A k \in (Len(prefix) + 1)..Len(orig) :
                 WidthOf(SubSeq(orig, 1, k) \o <<ELLIPSIS>>) > wrappedWidth

\* C6 witness: a Truncated result that keeps some of the text and took more
\* than one iteration to reach.
C6_Witness ==
    /\ result = "Truncated"
    /\ Len(best_unwrapped_label) >= 1
    /\ Len(best_unwrapped_label) + 2 <= Len(labels[1])

\* C7: when the widget is at rest, the label SetLabel ran on last is the label
\* the host set last: SetFont re-wraps that label, never an earlier one.
C7_SetFontRewrapsLastLabel ==
    pc = "idle" => label = lastLabel

\* C8: for a label of N >= 1 words, the candidates are 2^(N-1) pairwise
\* distinct texts, exactly the words joined by each choice of space or new line
\* at the N-1 boundaries, and each splits back into the words in order.
C8_AllWrappings ==
    labels # <<>> =>
        LET words == Split(label)
            N == Len(words)
        IN /\ Len(labels) = 2 ^ (N - 1)
           /\ \A i, j \in Candidates : i # j => labels[i] # labels[j]
           /\ {labels[i] : i \in Candidates}
                 = {Interleave(words, p) : p \in [1..(N - 1) -> {SP, NL}]}
           /\ \A i \in Candidates : Split(labels[i]) = words

\* C8 witness: the candidates of a label of three words, not all the same.
C8_Witness ==
    /\ Len(labels) = 4
    /\ Split(label)[1] # Split(label)[2]

\* C9: after the search loop, the tracked overflow candidate is the first, in
\* enumeration order, of the candidates wider than the bound that has the
\* smallest height and, among those, the smallest width; the tracked overflow
\* width and height are its own measurements.
C9_OverflowTracked ==
    (labels # <<>> /\ Untruncated) =>
        LET over == {i \in Candidates : ~Fits(labels[i])}
            Least(i) ==
                \A j \in over :
                    \/ HeightOf(labels[i]) < HeightOf(labels[j])
                    \/ /\ HeightOf(labels[i]) = HeightOf(labels[j])
                       /\ WidthOf(labels[i]) < WidthOf(labels[j])
                    \/ /\ HeightOf(labels[i]) = HeightOf(labels[j])
                       /\ WidthOf(labels[i]) = WidthOf(labels[j])
                       /\ i <= j
        IN IF over = {} THEN best_unwrapped_label = None
           ELSE \E i \in over :
                   /\ Least(i)
                   /\ best_unwrapped_label = labels[i]
                   /\ best_unwrapped_width = WidthOf(labels[i])
                   /\ best_unwrapped_height = HeightOf(labels[i])

\* C10: whenever the fallback runs or has returned, an overflow candidate is
\* set, the candidate the search chose is the first enumerated one, the words
\* joined by single spaces on one line, and the text being shortened is a
\* prefix of it; a Truncated result is such a prefix followed by the ellipsis
\* and holds no line break.
C10_FallbackOnFirstCandidate ==
    (pc = "ellipsis" \/ result = "Truncated") =>
        /\ best_unwrapped_label # None
        /\ ChosenOverflow = labels[1]
        /\ labels[1] = JoinWith(Split(label), <<SP>>)
        /\ IsPrefix(best_unwrapped_label, labels[1])
        /\ Untruncated => best_unwrapped_label = labels[1]
        /\ result = "Truncated" =>
              /\ shown = best_unwrapped_label \o <<ELLIPSIS>>
              /\ \A i \in 1..Len(shown) : shown[i] # NL

\* C10 witness: a Truncated result for a label of several words, given with
\* irregular whitespace.
C10_Witness ==
    /\ result = "Truncated"
    /\ Len(labels) >= 2
    /\ label # labels[1]
    /\ Len(best_unwrapped_label) >= 2

=============================================================================
